---- MODULE Spec2Model ----
(***************************************************************************)
(* Model of the game-session backend of rust-playground:                   *)
(* src/src/game_handlers.rs (create_game, join_game, player_ready,         *)
(* submit_prompt, get_game_state), src/src/user_handlers.rs (create_user)  *)
(* and the tables main() creates in src/src/main.rs.                       *)
(*                                                                         *)
(* The tables games (uuid -> GameState) and users (id -> username) are      *)
(* functions whose domain is the set of primary keys present; their keys   *)
(* are fresh uuids.  The table game_codes is the set of its rows           *)
(* <code, game_uuid>: its key is a drawn code, and that an INSERT of a     *)
(* code already present fails is the PRIMARY KEY constraint of the table,  *)
(* modelled where the INSERT is.                                           *)
(*                                                                         *)
(* The operations are the pub handlers of game_handlers.rs and             *)
(* create_user (main() routes create_game, join_game and create_user).     *)
(*                                                                         *)
(* Spec     runs every handler as one step (requests served one at a time).*)
(* ConcSpec runs join_game / player_ready / submit_prompt as the code      *)
(*          issues its statements: a SELECT of the state, then later an    *)
(*          UPDATE with the locally computed state, with another request's *)
(*          statements in between (each statement autocommits; no handler  *)
(*          opens a transaction or takes a lock).                          *)
(* FairSpec is Spec with every enabled request eventually served.          *)
(* StaleSpec is ConcSpec with one request served between the two workers'. *)
(* CreateSpec runs create_game as the code issues its statements: the      *)
(*          SELECT COUNT of each drawn code, the INSERT of the code, the   *)
(*          INSERT of the game, with other create_game requests in between.*)
(* CreateFairSpec is CreateSpec with every request eventually continued.   *)
(* GenSpec  runs generate_game_code on the outcomes of its random choices. *)
(* ScoreSpec runs score_guess on the replies of the embedding service      *)
(*          (calculate_similarity and cosine_similarity of                 *)
(*          src/src/ai_handlers.rs).                                       *)
(*                                                                         *)
(* Uuid::new_v4() is taken to return a value not yet in use.               *)
(***************************************************************************)
EXTENDS Integers, Sequences, FiniteSets, TLC

VARIABLES
    game_codes,   \* table game_codes: rows <code, game_uuid>      (main.rs 260-263)
    games,        \* table games: uuid -> GameState                (main.rs 268-271)
    users,        \* table users: id -> username                   (main.rs 278-281)
    last,         \* Spec: the latest request served and its HTTP response
    reqs          \* per worker, the request it runs statement by statement

vars == <<game_codes, games, users, last, reqs>>

(***************************************************************************)
(* Bounds of the model.                                                    *)
(***************************************************************************)
MaxPlayers == 3      \* join_game is not called on a session holding this many players
MaxPrompts == 3      \* submit_prompt is not called on a session holding this many prompts

UUIDs     == {"u1"}              \* values Uuid::new_v4() draws for a new game
AnyUUIDs  == UUIDs \cup {"u0"}   \* game uuids callers name
Codes     == {"c1"}              \* values generate_game_code() draws
AnyCodes  == Codes \cup {"c0"}   \* game codes callers name
PlayerIds == {"p1", "p2", "p3"}  \* player identifiers callers supply
UserIds   == {"p1"}              \* values Uuid::new_v4() draws for a new user
Prompts   == {"a"}               \* prompt texts callers supply (no handler reads the text)
Usernames == {"ann"}             \* usernames create_user is called with
Workers   == {"w1", "w2"}        \* ConcSpec: workers whose request is followed statement by statement

(***************************************************************************)
(* Program constants.                                                      *)
(***************************************************************************)
StartPlayers == 2    \* players.len() == 2 in the start-of-game test
TotalRounds  == 3    \* total_rounds of a new game
FirstRound   == 1    \* current_round of a new game

(***************************************************************************)
(* Helpers on tables and sequences.                                        *)
(***************************************************************************)
Insert(table, key, row) ==
    [k \in DOMAIN table \cup {key} |-> IF k = key THEN row ELSE table[k]]

EmptyTable == [k \in {} |-> k]

\* A row of game_codes.
CodeRow(code, game_uuid) == [code |-> code, game_uuid |-> game_uuid]

\* SELECT COUNT(*) FROM game_codes WHERE code = ?1, lines 159-164.
code_count(rows, game_code) ==
    Cardinality({r \in rows : r.code = game_code})

\* SELECT game_uuid FROM game_codes WHERE code = ?1, lines 223-227
\* (query_row: a row with that code).
select_game_uuid(rows, game_code) ==
    (CHOOSE r \in rows : r.code = game_code).game_uuid

\* Mutant of primary_key_allows: the table has no key.
primary_key_ignored(rows, game_code) == TRUE

\* code TEXT PRIMARY KEY (main.rs 261): an INSERT into game_codes succeeds
\* only when no row has the code.
primary_key_allows(rows, game_code) ==
    \A r \in rows : r.code # game_code

\* Iterator::find on players: the index of the first player with this id, 0 if none.
find(players, player_id) ==
    IF \E i \in 1..Len(players) : players[i].id = player_id
    THEN CHOOSE i \in 1..Len(players) :
            /\ players[i].id = player_id
            /\ \A j \in 1..(i - 1) : players[j].id # player_id
    ELSE 0

\* players.iter().all(|p| p.ready)
all_ready(players) == \A i \in 1..Len(players) : players[i].ready

(***************************************************************************)
(* create_game: the state it persists.                                     *)
(***************************************************************************)
\* Mutant of initial_state: rounds are counted from 0.
initial_state_round_zero(game_uuid) ==
    [ game_id           |-> game_uuid,
      status            |-> "waiting",
      current_round     |-> 0,
      total_rounds      |-> TotalRounds,
      players           |-> << >>,
      current_prompt    |-> "",
      current_image     |-> "",
      submitted_prompts |-> << >>,
      submitted_guesses |-> << >> ]

\* Mutant of initial_state: the game is created already started.
initial_state_started(game_uuid) ==
    [ game_id           |-> game_uuid,
      status            |-> "imagining",
      current_round     |-> FirstRound,
      total_rounds      |-> TotalRounds,
      players           |-> << >>,
      current_prompt    |-> "",
      current_image     |-> "",
      submitted_prompts |-> << >>,
      submitted_guesses |-> << >> ]

initial_state(game_uuid) ==
    [ game_id           |-> game_uuid,
      status            |-> "waiting",
      current_round     |-> FirstRound,
      total_rounds      |-> TotalRounds,
      players           |-> << >>,
      current_prompt    |-> "",
      current_image     |-> "",
      submitted_prompts |-> << >>,
      submitted_guesses |-> << >> ]

(***************************************************************************)
(* What each handler computes on the GameState it loaded, before saving.   *)
(***************************************************************************)
\* Mutant of start_if_ready: the test forgets the ready flags.
start_if_ready_unchecked(game_state) ==
    IF Len(game_state.players) = StartPlayers
    THEN [game_state EXCEPT !.status = "imagining"]
    ELSE game_state

\* The start-of-game test shared by join_game and player_ready.
start_if_ready(game_state) ==
    IF Len(game_state.players) = StartPlayers /\ all_ready(game_state.players)
    THEN [game_state EXCEPT !.status = "imagining"]
    ELSE game_state

\* join_game: SELECT username (or ""), build the Player, push it, start test.
lookup_username(us, player_id) ==
    IF player_id \in DOMAIN us THEN us[player_id] ELSE ""

\* Mutant of join_game_apply: the new player is put at the front.
join_game_apply_front(game_state, username, player_id) ==
    LET player == [id |-> player_id, username |-> username, score |-> 0, ready |-> FALSE]
    IN  start_if_ready([game_state EXCEPT !.players = <<player>> \o @])

join_game_apply(game_state, username, player_id) ==
    LET player == [id |-> player_id, username |-> username, score |-> 0, ready |-> FALSE]
    IN  start_if_ready([game_state EXCEPT !.players = Append(@, player)])

\* player_ready: mark the first player with this id (if any), start test.
player_ready_apply(game_state, player_id) ==
    LET i == find(game_state.players, player_id)
        marked == IF i = 0 THEN game_state
                  ELSE [game_state EXCEPT !.players[i].ready = TRUE]
    IN  start_if_ready(marked)

\* Mutant of submit_prompt_rejects: only the lobby is rejected.
submit_prompt_rejects_lobby_only(game_state) == game_state.status = "waiting"

\* submit_prompt: the phase test that rejects the request.
submit_prompt_rejects(game_state) == game_state.status # "imagining"

\* submit_prompt: push the pair, move to guessing when the counts are equal.
submit_prompt_apply(game_state, player_id, prompt) ==
    LET pushed == [game_state EXCEPT !.submitted_prompts = Append(@, <<player_id, prompt>>)]
    IN  IF Len(pushed.submitted_prompts) = Len(pushed.players)
        THEN [pushed EXCEPT !.status = "guessing"]
        ELSE pushed

(***************************************************************************)
(* The handlers as functions of the tables: response and new games table.  *)
(***************************************************************************)
Result(resp, gm) == [resp |-> resp, games |-> gm]

\* join_game, lines 214-281.
join_game_result(game_code, player_id) ==
    IF code_count(game_codes, game_code) = 0 THEN Result("NotFound", games)
    ELSE LET game_uuid == select_game_uuid(game_codes, game_code) IN
         IF game_uuid \notin DOMAIN games THEN Result("NotFound", games)
         ELSE Result("Ok", [games EXCEPT ![game_uuid] =
                  join_game_apply(@, lookup_username(users, player_id), player_id)])

\* Mutant of player_ready_result: a session that was not found is saved.
player_ready_result_upsert(game_uuid, player_id) ==
    IF game_uuid \notin DOMAIN games
    THEN Result("NotFound", Insert(games, game_uuid,
                                   player_ready_apply(initial_state(game_uuid), player_id)))
    ELSE Result("Ok", [games EXCEPT ![game_uuid] = player_ready_apply(@, player_id)])

\* Mutant of player_ready_result: an unknown session is answered Ok.
player_ready_result_ok_unknown(game_uuid, player_id) ==
    IF game_uuid \notin DOMAIN games THEN Result("Ok", games)
    ELSE Result("Ok", [games EXCEPT ![game_uuid] = player_ready_apply(@, player_id)])

\* player_ready, lines 283-331.
player_ready_result(game_uuid, player_id) ==
    IF game_uuid \notin DOMAIN games THEN Result("NotFound", games)
    ELSE Result("Ok", [games EXCEPT ![game_uuid] = player_ready_apply(@, player_id)])

\* submit_prompt, lines 81-130.
submit_prompt_result(game_uuid, player_id, prompt) ==
    IF game_uuid \notin DOMAIN games THEN Result("NotFound", games)
    ELSE IF submit_prompt_rejects(games[game_uuid]) THEN Result("BadRequest", games)
    ELSE Result("Ok", [games EXCEPT ![game_uuid] =
             submit_prompt_apply(@, player_id, prompt)])

\* The bounds of the model: no join_game on a session that holds MaxPlayers
\* players, no submit_prompt on one that holds MaxPrompts prompts.
JoinInBounds(game_code) ==
    (/\ code_count(game_codes, game_code) # 0
     /\ select_game_uuid(game_codes, game_code) \in DOMAIN games)
        => Len(games[select_game_uuid(game_codes, game_code)].players) < MaxPlayers

SubmitInBounds(game_uuid) ==
    (game_uuid \in DOMAIN games /\ ~submit_prompt_rejects(games[game_uuid]))
        => Len(games[game_uuid].submitted_prompts) < MaxPrompts

(***************************************************************************)
(* The record of the latest request (handler and session key) and its      *)
(* response.                                                               *)
(***************************************************************************)
Served(op, key, resp) ==
    [op |-> op, key |-> key, resp |-> resp]

Idle == [pc |-> "idle"]

Init ==
    /\ game_codes = {}
    /\ games = EmptyTable
    /\ users = EmptyTable
    /\ last = Served("none", "", "")
    /\ reqs = [w \in Workers |-> Idle]

(***************************************************************************)
(* Spec: one handler per step.                                             *)
(***************************************************************************)
\* create_user(username): rejected when the username exists, else a fresh id.
create_user(username) ==
    /\ IF \E id \in DOMAIN users : users[id] = username
       THEN /\ last' = Served("create_user", username, "BadRequest")
            /\ UNCHANGED users
       ELSE \E user_id \in UserIds \ DOMAIN users :
            /\ users' = Insert(users, user_id, username)
            /\ last' = Served("create_user", username, "Ok")
    /\ UNCHANGED <<game_codes, games, reqs>>

\* create_game: draw codes until one is not in game_codes, a fresh uuid,
\* insert the code and the initial state.  (With every code taken the loop
\* of lines 157-175 does not exit and the handler takes no step.)
create_game ==
    /\ \E game_code \in Codes, game_uuid \in UUIDs \ DOMAIN games :
          /\ code_count(game_codes, game_code) = 0
          /\ game_codes' = game_codes \cup {CodeRow(game_code, game_uuid)}
          /\ games' = Insert(games, game_uuid, initial_state(game_uuid))
          /\ last' = Served("create_game", game_code, "Ok")
    /\ UNCHANGED <<users, reqs>>

\* get_game_state(game_id): read only.
get_game_state(game_id) ==
    /\ last' = Served("get_game_state", game_id,
                      IF game_id \in DOMAIN games THEN "Ok" ELSE "NotFound")
    /\ UNCHANGED <<game_codes, games, users, reqs>>

join_game(game_code, player_id) ==
    /\ JoinInBounds(game_code)
    /\ games' = join_game_result(game_code, player_id).games
    /\ last' = Served("join_game", game_code,
                      join_game_result(game_code, player_id).resp)
    /\ UNCHANGED <<game_codes, users, reqs>>

player_ready(game_uuid, player_id) ==
    /\ games' = player_ready_result(game_uuid, player_id).games
    /\ last' = Served("player_ready", game_uuid,
                      player_ready_result(game_uuid, player_id).resp)
    /\ UNCHANGED <<game_codes, users, reqs>>

submit_prompt(game_uuid, player_id, prompt) ==
    /\ SubmitInBounds(game_uuid)
    /\ games' = submit_prompt_result(game_uuid, player_id, prompt).games
    /\ last' = Served("submit_prompt", game_uuid,
                      submit_prompt_result(game_uuid, player_id, prompt).resp)
    /\ UNCHANGED <<game_codes, users, reqs>>

Next ==
    \/ \E username \in Usernames : create_user(username)
    \/ create_game
    \/ \E game_id \in AnyUUIDs : get_game_state(game_id)
    \/ \E game_code \in AnyCodes, player_id \in PlayerIds : join_game(game_code, player_id)
    \/ \E game_uuid \in AnyUUIDs, player_id \in PlayerIds : player_ready(game_uuid, player_id)
    \/ \E game_uuid \in AnyUUIDs, player_id \in PlayerIds, prompt \in Prompts :
          submit_prompt(game_uuid, player_id, prompt)

Spec == Init /\ [][Next]_vars

(***************************************************************************)
(* ConcSpec: the statements of join_game, player_ready and submit_prompt   *)
(* as separate steps.  Each statement autocommits on the request's own     *)
(* connection; neither BEGIN nor a lock spans the SELECT of the state and  *)
(* the UPDATE that writes it back.                                         *)
(*                                                                         *)
(* Requests served in one piece (the whole_ actions) first bring the       *)
(* tables to any state Spec reaches; then every worker of Workers runs one *)
(* request statement by statement, concurrently with the other workers,    *)
(* and keeps the response it sent.                                         *)
(*                                                                         *)
(* join_game's three SELECTs are one step, taken when it reads the state:  *)
(* rows of game_codes are never changed and the read of users commutes     *)
(* with every write of games.                                              *)
(***************************************************************************)
Request(op, player_id, prompt) ==
    [op |-> op, player_id |-> player_id, prompt |-> prompt]

\* After the SELECTs: the request, the row it addresses, what it read.
Loaded(rq, game_uuid, game_state, username) ==
    [pc |-> "loaded", rq |-> rq, game_uuid |-> game_uuid,
     game_state |-> game_state, username |-> username]

\* After the response: for Ok, the session addressed and the state the request had read.
Done(rq, resp, game_uuid, seen) ==
    [pc |-> "done", rq |-> rq, resp |-> resp, game_uuid |-> game_uuid, seen |-> seen]

Failed(op, resp) == Done(Request(op, "", ""), resp, "", initial_state(""))

\* join_game up to and including its SELECTs (lines 215-254).
join_game_load(w, game_code, player_id) ==
    /\ reqs[w].pc = "idle"
    /\ JoinInBounds(game_code)
    /\ IF join_game_result(game_code, player_id).resp # "Ok"
       THEN reqs' = [reqs EXCEPT ![w] =
                        Failed("join_game", join_game_result(game_code, player_id).resp)]
       ELSE reqs' = [reqs EXCEPT ![w] =
                        Loaded(Request("join_game", player_id, ""),
                               select_game_uuid(game_codes, game_code),
                               games[select_game_uuid(game_codes, game_code)],
                               lookup_username(users, player_id))]
    /\ UNCHANGED <<game_codes, games, users, last>>

\* player_ready up to and including its SELECT (lines 284-302).
player_ready_load(w, game_uuid, player_id) ==
    /\ reqs[w].pc = "idle"
    /\ IF player_ready_result(game_uuid, player_id).resp # "Ok"
       THEN reqs' = [reqs EXCEPT ![w] =
                        Failed("player_ready", player_ready_result(game_uuid, player_id).resp)]
       ELSE reqs' = [reqs EXCEPT ![w] =
                        Loaded(Request("player_ready", player_id, ""),
                               game_uuid, games[game_uuid], "")]
    /\ UNCHANGED <<game_codes, games, users, last>>

\* submit_prompt up to and including its SELECT and phase test (lines 82-104).
submit_prompt_load(w, game_uuid, player_id, prompt) ==
    /\ reqs[w].pc = "idle"
    /\ SubmitInBounds(game_uuid)
    /\ IF submit_prompt_result(game_uuid, player_id, prompt).resp # "Ok"
       THEN reqs' = [reqs EXCEPT ![w] =
                        Failed("submit_prompt",
                               submit_prompt_result(game_uuid, player_id, prompt).resp)]
       ELSE reqs' = [reqs EXCEPT ![w] =
                        Loaded(Request("submit_prompt", player_id, prompt),
                               game_uuid, games[game_uuid], "")]
    /\ UNCHANGED <<game_codes, games, users, last>>

\* What the request computes from the state it loaded.
computed(r) ==
    CASE r.rq.op = "join_game"     -> join_game_apply(r.game_state, r.username, r.rq.player_id)
      [] r.rq.op = "player_ready"  -> player_ready_apply(r.game_state, r.rq.player_id)
      [] r.rq.op = "submit_prompt" ->
            submit_prompt_apply(r.game_state, r.rq.player_id, r.rq.prompt)

\* The UPDATE of the handler and its Ok response (lines 115-129, 269-280, 316-330).
save(w) ==
    /\ reqs[w].pc = "loaded"
    /\ games' = [games EXCEPT ![reqs[w].game_uuid] = computed(reqs[w])]
    /\ reqs' = [reqs EXCEPT ![w] =
                   Done(reqs[w].rq, "Ok", reqs[w].game_uuid, reqs[w].game_state)]
    /\ UNCHANGED <<game_codes, users, last>>

\* Requests served in one piece before the workers' requests arrive, their
\* responses not kept: they bring the tables to any state Spec reaches.
NoneArrived == \A w \in Workers : reqs[w].pc = "idle"

whole_create_game ==
    /\ NoneArrived
    /\ \E game_code \in Codes, game_uuid \in UUIDs \ DOMAIN games :
          /\ code_count(game_codes, game_code) = 0
          /\ game_codes' = game_codes \cup {CodeRow(game_code, game_uuid)}
          /\ games' = Insert(games, game_uuid, initial_state(game_uuid))
    /\ UNCHANGED <<users, last, reqs>>

whole_join_game(game_code, player_id) ==
    /\ NoneArrived
    /\ JoinInBounds(game_code)
    /\ games' = join_game_result(game_code, player_id).games
    /\ UNCHANGED <<game_codes, users, last, reqs>>

whole_player_ready(game_uuid, player_id) ==
    /\ NoneArrived
    /\ games' = player_ready_result(game_uuid, player_id).games
    /\ UNCHANGED <<game_codes, users, last, reqs>>

whole_submit_prompt(game_uuid, player_id, prompt) ==
    /\ NoneArrived
    /\ SubmitInBounds(game_uuid)
    /\ games' = submit_prompt_result(game_uuid, player_id, prompt).games
    /\ UNCHANGED <<game_codes, users, last, reqs>>

ConcNext ==
    \/ whole_create_game
    \/ \E game_code \in AnyCodes, player_id \in PlayerIds : whole_join_game(game_code, player_id)
    \/ \E game_uuid \in AnyUUIDs, player_id \in PlayerIds :
          whole_player_ready(game_uuid, player_id)
    \/ \E game_uuid \in AnyUUIDs, player_id \in PlayerIds, prompt \in Prompts :
          whole_submit_prompt(game_uuid, player_id, prompt)
    \/ \E w \in Workers, game_code \in AnyCodes, player_id \in PlayerIds :
          join_game_load(w, game_code, player_id)
    \/ \E w \in Workers, game_uuid \in AnyUUIDs, player_id \in PlayerIds :
          player_ready_load(w, game_uuid, player_id)
    \/ \E w \in Workers, game_uuid \in AnyUUIDs, player_id \in PlayerIds, prompt \in Prompts :
          submit_prompt_load(w, game_uuid, player_id, prompt)
    \/ \E w \in Workers : save(w)

ConcSpec == Init /\ [][ConcNext]_vars

(***************************************************************************)
(* StaleSpec: ConcSpec with one more request between the workers' two: a   *)
(* player_ready served in one piece while one worker holds the state it    *)
(* read and the other has not arrived yet.  It is the only request whose   *)
(* response `last` records here.                                           *)
(***************************************************************************)
between_player_ready(game_uuid, player_id) ==
    /\ last.op = "none"
    /\ \E w \in Workers : reqs[w].pc = "loaded"
    /\ \E w \in Workers : reqs[w].pc = "idle"
    /\ player_ready(game_uuid, player_id)

StaleNext ==
    \/ ConcNext
    \/ \E game_uuid \in UUIDs, player_id \in PlayerIds :
          between_player_ready(game_uuid, player_id)

StaleSpec == Init /\ [][StaleNext]_vars

(***************************************************************************)
(* FairSpec: Spec in which a request that stays possible is eventually     *)
(* served, and every player keeps sending submit_prompt.                   *)
(***************************************************************************)
FairSpec ==
    /\ Init /\ [][Next]_vars
    /\ WF_vars(Next)
    /\ \A player_id \in PlayerIds :
          WF_vars(\E game_uuid \in UUIDs, prompt \in Prompts :
                     submit_prompt(game_uuid, player_id, prompt))

(***************************************************************************)
(* CreateSpec: the statements of create_game as separate steps, for        *)
(* requests that run concurrently.  A worker draws the game's uuid, then   *)
(* repeats: draw a code, SELECT COUNT of it, until the count is 0; then    *)
(* INSERTs the code, then INSERTs the game.  Nothing spans the SELECT      *)
(* COUNT and the INSERT, so two requests can both count 0 for one code.    *)
(* A worker that has answered takes the next request.                      *)
(***************************************************************************)
CreateCodes == {"c1", "c2"}         \* values generate_game_code() draws in CreateSpec
CreateUUIDs == {"u1", "u2", "u3"}   \* values Uuid::new_v4() draws in CreateSpec

\* In the loop of lines 157-175: the uuid drawn, the code drawn last.
Drawing(game_uuid, game_code) ==
    [pc |-> "drawing", game_uuid |-> game_uuid, game_code |-> game_code]

\* Past the loop: the code whose count was 0.
Checked(game_uuid, game_code) ==
    [pc |-> "checked", game_uuid |-> game_uuid, game_code |-> game_code]

\* Past the INSERT into game_codes.
Coded(game_uuid, game_code) ==
    [pc |-> "coded", game_uuid |-> game_uuid, game_code |-> game_code]

\* The response sent.
Created(resp, game_uuid, game_code) ==
    [pc |-> "done", resp |-> resp, game_uuid |-> game_uuid, game_code |-> game_code]

\* The uuids of the requests in progress.
UUIDsHeld == {reqs[w].game_uuid : w \in {v \in Workers : reqs[v].pc \notin {"idle", "done"}}}

\* Line 147: the request arrives and draws its uuid.
create_game_begin(w) ==
    /\ reqs[w].pc \in {"idle", "done"}
    /\ \E game_uuid \in CreateUUIDs \ (DOMAIN games \cup UUIDsHeld) :
          reqs' = [reqs EXCEPT ![w] = Drawing(game_uuid, "")]
    /\ UNCHANGED <<game_codes, games, users, last>>

\* Lines 158-174: one turn of the loop, draw game_code and count its rows.
create_game_draw(w, game_code) ==
    /\ reqs[w].pc = "drawing"
    /\ reqs' = [reqs EXCEPT ![w] =
                   IF code_count(game_codes, game_code) = 0
                   THEN Checked(reqs[w].game_uuid, game_code)
                   ELSE Drawing(reqs[w].game_uuid, game_code)]
    /\ UNCHANGED <<game_codes, games, users, last>>

\* Lines 189-198: INSERT INTO game_codes; an Err is answered 500.
create_game_insert_code(w) ==
    /\ reqs[w].pc = "checked"
    /\ IF primary_key_allows(game_codes, reqs[w].game_code)
       THEN /\ game_codes' = game_codes \cup {CodeRow(reqs[w].game_code, reqs[w].game_uuid)}
            /\ reqs' = [reqs EXCEPT ![w] = Coded(reqs[w].game_uuid, reqs[w].game_code)]
       ELSE /\ UNCHANGED game_codes
            /\ reqs' = [reqs EXCEPT ![w] =
                           Created("InternalServerError", reqs[w].game_uuid, reqs[w].game_code)]
    /\ UNCHANGED <<games, users, last>>

\* Lines 200-211: INSERT INTO games (the uuid is fresh), then Ok.
create_game_insert_game(w) ==
    /\ reqs[w].pc = "coded"
    /\ games' = Insert(games, reqs[w].game_uuid, initial_state(reqs[w].game_uuid))
    /\ reqs' = [reqs EXCEPT ![w] = Created("Ok", reqs[w].game_uuid, reqs[w].game_code)]
    /\ UNCHANGED <<game_codes, users, last>>

CreateNext ==
    \/ \E w \in Workers : create_game_begin(w)
    \/ \E w \in Workers, game_code \in CreateCodes : create_game_draw(w, game_code)
    \/ \E w \in Workers : create_game_insert_code(w)
    \/ \E w \in Workers : create_game_insert_game(w)

CreateSpec == Init /\ [][CreateNext]_vars

\* A request that has arrived runs on; a loop that can draw a free code
\* again and again draws one.
CreateFairSpec ==
    /\ Init /\ [][CreateNext]_vars
    /\ \A w \in Workers :
          /\ WF_vars(\E game_code \in CreateCodes : create_game_draw(w, game_code))
          /\ SF_vars(\E game_code \in CreateCodes :
                        create_game_draw(w, game_code) /\ reqs'[w].pc = "checked")
          /\ WF_vars(create_game_insert_code(w))
          /\ WF_vars(create_game_insert_game(w))

(***************************************************************************)
(* Claims.                                                                 *)
(***************************************************************************)
\* Number of entries of a players list with this id.
Entries(players, player_id) ==
    Cardinality({i \in 1..Len(players) : players[i].id = player_id})

\* Number of entries of submitted_prompts by this player.
PromptsBy(submitted_prompts, player_id) ==
    Cardinality({i \in 1..Len(submitted_prompts) : submitted_prompts[i][1] = player_id})

\* Number of occurrences of a (player, prompt) pair in submitted_prompts.
Occurrences(submitted_prompts, pair) ==
    Cardinality({i \in 1..Len(submitted_prompts) : submitted_prompts[i] = pair})

\* C1: in every reachable state no session holds more players than the
\* capacity (2); a join_game on a full session does not add a player.
\* (Players are counted by identifier, so that a repeated join of the same
\* player does not count against the capacity.)
C1_PlayersWithinCapacity ==
    \A u \in DOMAIN games :
        Cardinality({games[u].players[i].id : i \in 1..Len(games[u].players)}) <= StartPlayers

\* C2: join is idempotent: whatever join_game calls were made, a player
\* identifier occurs at most once in a session's players.
C2_JoinIdempotent ==
    \A u \in DOMAIN games : \A p \in PlayerIds : Entries(games[u].players, p) <= 1

\* C3: two concurrent join_game calls for distinct players, neither in the
\* session yet, that both read the players list with exactly one slot left
\* do not both return Ok.
C3_NoDoubleJoin ==
    \A w1 \in Workers : \A w2 \in Workers \ {w1} :
        ~ /\ reqs[w1].pc = "done" /\ reqs[w2].pc = "done"
          /\ reqs[w1].rq.op = "join_game" /\ reqs[w2].rq.op = "join_game"
          /\ reqs[w1].resp = "Ok" /\ reqs[w2].resp = "Ok"
          /\ reqs[w1].game_uuid = reqs[w2].game_uuid
          /\ reqs[w1].rq.player_id # reqs[w2].rq.player_id
          /\ Len(reqs[w1].seen.players) = StartPlayers - 1
          /\ Entries(reqs[w1].seen.players, reqs[w1].rq.player_id) = 0
          /\ Entries(reqs[w1].seen.players, reqs[w2].rq.player_id) = 0
          /\ reqs[w2].seen.players = reqs[w1].seen.players

\* The effect of an acknowledged request is in the persisted state: the
\* joined player's entry, the ready flag of the player found, the prompt pair.
EffectPersisted(r) ==
    LET g == games[r.game_uuid]
        p == r.rq.player_id
    IN  CASE r.rq.op = "join_game" ->
                Entries(g.players, p) >= Entries(r.seen.players, p) + 1
          [] r.rq.op = "player_ready" ->
                find(r.seen.players, p) # 0 =>
                    /\ find(g.players, p) # 0
                    /\ g.players[find(g.players, p)].ready
          [] r.rq.op = "submit_prompt" ->
                Occurrences(g.submitted_prompts, <<p, r.rq.prompt>>)
                    >= Occurrences(r.seen.submitted_prompts, <<p, r.rq.prompt>>) + 1

\* C4: actions on a session are applied atomically, so the effect of every
\* request answered Ok (an added player, a ready flag, a submitted prompt)
\* is in the persisted state, not lost to another request's write.
C4_NoLostEffect ==
    \A w \in Workers :
        (reqs[w].pc = "done" /\ reqs[w].resp = "Ok") => EffectPersisted(reqs[w])

\* The phase steps the specification allows.
PhaseStep(from, to) ==
    \/ to = from
    \/ from = "waiting"   /\ to = "imagining"
    \/ from = "imagining" /\ to = "guessing"
    \/ from = "guessing"  /\ to = "scoring"
    \/ from = "scoring"   /\ to \in {"complete", "imagining"}

\* C5: the phase only moves forward in the order waiting, imagining,
\* guessing, scoring, complete, except scoring -> imagining; no step skips
\* a phase, goes from guessing back to imagining, or re-enters waiting.
C5_PhaseOrder ==
    [][\A u \in DOMAIN games : PhaseStep(games[u].status, games'[u].status)]_vars

\* C6: a game that has started and whose players keep submitting goes
\* through its rounds and eventually reaches Complete.
C6_ReachesComplete ==
    (\E u \in DOMAIN games : games[u].status = "imagining")
        ~> (\E u \in DOMAIN games : games[u].status = "complete")

\* The states of the scenario Join(p1), Join(p2), PlayerReady(p1),
\* PlayerReady(p2) on the session game_state, as the handlers compute them.
ScenarioStates(game_state, p1, p2) ==
    LET s1 == join_game_apply(game_state, lookup_username(users, p1), p1)
        s2 == join_game_apply(s1, lookup_username(users, p2), p2)
        s3 == player_ready_apply(s2, p1)
        s4 == player_ready_apply(s3, p2)
    IN  <<s1, s2, s3, s4>>

\* C7: from a freshly created session, Join(p1), Join(p2), PlayerReady(p1),
\* PlayerReady(p2) with p1 # p2 ends in phase imagining with current_round 1,
\* and the phase is still waiting after each of the first three steps.
C7_ReadyScenario ==
    \A u \in DOMAIN games : \A p1 \in PlayerIds : \A p2 \in PlayerIds \ {p1} :
        games[u] = initial_state(u) =>
            LET s == ScenarioStates(games[u], p1, p2) IN
            /\ s[1].status = "waiting"
            /\ s[2].status = "waiting"
            /\ s[3].status = "waiting"
            /\ s[4].status = "imagining"
            /\ s[4].current_round = 1

\* Witness of C7: the scenario has run on a session: the last step was the
\* second player_ready and the session is in the scenario's final state.
C7_Witness ==
    \E u \in DOMAIN games : \E p1 \in PlayerIds : \E p2 \in PlayerIds \ {p1} :
        /\ last = Served("player_ready", u, "Ok")
        /\ games[u] = ScenarioStates(initial_state(u), p1, p2)[4]
        /\ games[u].status = "imagining"

\* C8: submitted_prompts holds at most one entry per player identifier; a
\* second submit_prompt by a player overwrites, it adds no second entry.
C8_OnePromptPerPlayer ==
    \A u \in DOMAIN games : \A p \in PlayerIds :
        PromptsBy(games[u].submitted_prompts, p) <= 1

\* C9: whenever a step moves a session from imagining to guessing, every
\* member of players has exactly one entry in submitted_prompts.
C9_GuessingWhenAllSubmitted ==
    [][\A u \in DOMAIN games :
          (games[u].status = "imagining" /\ games'[u].status = "guessing") =>
              \A i \in 1..Len(games'[u].players) :
                  PromptsBy(games'[u].submitted_prompts, games'[u].players[i].id) = 1]_vars

\* C10: a submit_prompt on a session whose phase is not imagining is
\* answered with the wrong-phase error (400) and records no prompt.
C10_WrongPhaseRejected ==
    [][\A u \in DOMAIN games :
          (last'.op = "submit_prompt" /\ last'.key = u /\ games[u].status # "imagining") =>
              (last'.resp = "BadRequest" /\ games' = games)]_vars

\* Witness of C10: a submit_prompt on a session in guessing was rejected.
C10_Witness ==
    \E u \in DOMAIN games :
        /\ last.op = "submit_prompt" /\ last.key = u /\ last.resp = "BadRequest"
        /\ games[u].status = "guessing"

\* The identifiers of the players in game_state.players.
Members(game_state) ==
    {game_state.players[i].id : i \in 1..Len(game_state.players)}

\* C11: a player_ready or submit_prompt on an existing session that names a
\* player identifier not in the session's players is rejected (not answered
\* Ok) and leaves the session unchanged: no ready flag, no prompt recorded,
\* no phase transition.
C11_UnknownPlayerRejected ==
    [][\A u \in DOMAIN games : \A p \in PlayerIds \ Members(games[u]) :
          /\ player_ready(u, p) => (last'.resp # "Ok" /\ games' = games)
          /\ \A prompt \in Prompts :
                submit_prompt(u, p, prompt) => (last'.resp # "Ok" /\ games' = games)]_vars

\* The request served by the step names a session that does not exist: a
\* code without a row in game_codes (or whose row names no game), or a uuid
\* without a row in games.
UnknownSession(op, key) ==
    \/ /\ op = "join_game"
       /\ \/ code_count(game_codes, key) = 0
          \/ select_game_uuid(game_codes, key) \notin DOMAIN games
    \/ /\ op \in {"player_ready", "submit_prompt", "get_game_state"}
       /\ key \notin DOMAIN games

\* C12: a join_game, player_ready, submit_prompt or get_game_state that
\* names an unknown session is answered NotFound (404) and neither creates
\* nor modifies a session or a code.
C12_UnknownSessionNotFound ==
    [][UnknownSession(last'.op, last'.key) =>
          /\ last'.resp = "NotFound"
          /\ games' = games
          /\ game_codes' = game_codes]_vars

\* Witness of C12: a player_ready on an unknown uuid was answered NotFound
\* while a session exists under another uuid.
C12_Witness ==
    /\ last = Served("player_ready", "u0", "NotFound")
    /\ "u0" \notin DOMAIN games
    /\ DOMAIN games # {}

\* The responses that reject a request.
Rejections == {"NotFound", "BadRequest"}

\* C13: every request is answered Ok or with an error; a request answered
\* with an error leaves the tables as they were; and no request is answered
\* Ok when it was invalid and had no effect: a player_ready that names a
\* player who is not in the session is not answered Ok.
C13_NoSilentNoOp ==
    [][/\ last' # last => last'.resp \in Rejections \cup {"Ok"}
       /\ last'.resp \in Rejections =>
             (games' = games /\ game_codes' = game_codes /\ users' = users)
       /\ \A u \in DOMAIN games : \A p \in PlayerIds \ Members(games[u]) :
             (player_ready(u, p) /\ games' = games) => last'.resp # "Ok"]_vars

\* C14: each code has at most one game uuid registered in game_codes, also
\* when concurrent create_game requests drew the same code and both counted
\* no row for it.
C14_CodeUnique ==
    \A r1 \in game_codes : \A r2 \in game_codes :
        r1.code = r2.code => r1.game_uuid = r2.game_uuid

\* Witness of C14: two requests drew the same code and both passed the
\* count; one registered the code, the other's INSERT failed.
C14_Witness ==
    \E w1 \in Workers : \E w2 \in Workers \ {w1} :
        /\ reqs[w1].pc = "done" /\ reqs[w1].resp = "Ok"
        /\ reqs[w2].pc = "done" /\ reqs[w2].resp = "InternalServerError"
        /\ reqs[w1].game_code = reqs[w2].game_code
        /\ CodeRow(reqs[w1].game_code, reqs[w1].game_uuid) \in game_codes

\* C15: create_game always terminates: a request that has entered the loop
\* that draws codes eventually sends its response, also when every code it
\* draws is taken.
C15_CreateTerminates ==
    \A w \in Workers : (reqs[w].pc = "drawing") ~> (reqs[w].pc = "done")

\* C16: a create_game answered Ok has persisted one new session in the
\* initial state (status waiting, current_round 1, total_rounds 3, no
\* players, no submitted prompts, no submitted guesses) and has registered
\* the code it returns to that session's uuid.
C16_CreatePersistsInitial ==
    [][(create_game /\ last'.resp = "Ok") =>
          \E u \in DOMAIN games' \ DOMAIN games :
              /\ DOMAIN games' = DOMAIN games \cup {u}
              /\ games'[u].game_id = u
              /\ games'[u].status = "waiting"
              /\ games'[u].current_round = 1
              /\ games'[u].total_rounds = 3
              /\ games'[u].players = << >>
              /\ games'[u].submitted_prompts = << >>
              /\ games'[u].submitted_guesses = << >>
              /\ game_codes' = game_codes \cup {[code |-> last'.key, game_uuid |-> u]}
              /\ \A r \in game_codes : r.code # last'.key]_vars

\* Witness of C16: create_game has just answered Ok with code c1 and the
\* session registered under c1 is stored.
C16_Witness ==
    /\ last = Served("create_game", "c1", "Ok")
    /\ \E r \in game_codes : r.code = "c1" /\ r.game_uuid \in DOMAIN games

(***************************************************************************)
(* GenSpec: generate_game_code, lines 333-346, on the outcomes of its      *)
(* random choices.  rng.gen_range(0..CHARSET.len()) returns an index of    *)
(* CHARSET; the model follows the calls whose indices are in RngDraws      *)
(* (first and last letter, first and last digit).                          *)
(***************************************************************************)
CHARSET ==
    << "A", "B", "C", "D", "E", "F", "G", "H", "I", "J", "K", "L", "M",
       "N", "O", "P", "Q", "R", "S", "T", "U", "V", "W", "X", "Y", "Z",
       "0", "1", "2", "3", "4", "5", "6", "7", "8", "9" >>

CODE_LENGTH == 5

RngDraws == {0, 25, 26, 35}

\* Mutant of generate_game_code: the range of the map stops one short.
generate_game_code_short(idx) ==
    [i \in 1..(CODE_LENGTH - 1) |-> CHARSET[idx[i] + 1]]

\* (0..CODE_LENGTH).map(|_| CHARSET[idx] as char).collect(), with idx[i] the
\* index drawn in turn i (CHARSET is indexed from 0 in the code).
generate_game_code(idx) ==
    [i \in 1..CODE_LENGTH |-> CHARSET[idx[i] + 1]]

Generated(game_code) == [pc |-> "generated", game_code |-> game_code]

\* One call of generate_game_code by worker w.
generate(w, idx) ==
    /\ NoneArrived
    /\ reqs' = [reqs EXCEPT ![w] = Generated(generate_game_code(idx))]
    /\ UNCHANGED <<game_codes, games, users, last>>

GenNext ==
    \E w \in Workers, idx \in [1..CODE_LENGTH -> RngDraws] : generate(w, idx)

GenSpec == Init /\ [][GenNext]_vars

UpperCase ==
    { "A", "B", "C", "D", "E", "F", "G", "H", "I", "J", "K", "L", "M",
      "N", "O", "P", "Q", "R", "S", "T", "U", "V", "W", "X", "Y", "Z" }

Digits == { "0", "1", "2", "3", "4", "5", "6", "7", "8", "9" }

\* C17: every code generate_game_code returns has length exactly 5 and
\* only characters A-Z and 0-9; and every index gen_range can return
\* selects such a character of CHARSET.
C17_CodeFormat ==
    /\ \A w \in Workers : reqs[w].pc = "generated" =>
          /\ Len(reqs[w].game_code) = 5
          /\ \A i \in 1..Len(reqs[w].game_code) :
                reqs[w].game_code[i] \in UpperCase \cup Digits
    /\ \A i \in 0..(Len(CHARSET) - 1) : CHARSET[i + 1] \in UpperCase \cup Digits
    /\ RngDraws \subseteq 0..(Len(CHARSET) - 1)

\* Witness of C17: a code that mixes letters and digits was generated.
C17_Witness ==
    \E w \in Workers :
        /\ reqs[w].pc = "generated"
        /\ reqs[w].game_code = <<"A", "Z", "0", "9", "A">>

Dim     == 2
MaxComp == 2

Vectors == [1..Dim -> (-MaxComp)..MaxComp]

NaN == [nan |-> TRUE]

F64(num, rad, add) == [nan |-> FALSE, num |-> num, rad |-> rad, add |-> add]

RECURSIVE sum(_, _)
\* iter().sum() of the first n items of f.
sum(f, n) == IF n = 0 THEN 0 ELSE sum(f, n - 1) + f[n]

\* a.iter().zip(b.iter()).map(|(x, y)| x * y).sum(), line 317.
dot_product(a, b) ==
    LET n == IF Len(a) <= Len(b) THEN Len(a) ELSE Len(b)
    IN  sum([i \in 1..n |-> a[i] * b[i]], n)

\* a.iter().map(|x| x.powi(2)).sum(), the square of the magnitude of
\* lines 318-319.
sum_squares(a) == sum([i \in 1..Len(a) |-> a[i] * a[i]], Len(a))

\* Mutant of cosine_similarity: the divisor is the square of magnitude_a.
cosine_similarity_by_first(a, b) ==
    IF sum_squares(a) * sum_squares(b) = 0
    THEN NaN
    ELSE F64(dot_product(a, b), sum_squares(a) * sum_squares(a), 0)

\* cosine_similarity, lines 316-321: dot_product / (magnitude_a *
\* magnitude_b).  With a zero vector the division is 0.0 / 0.0, which is NaN.
cosine_similarity(a, b) ==
    IF sum_squares(a) * sum_squares(b) = 0
    THEN NaN
    ELSE F64(dot_product(a, b), sum_squares(a) * sum_squares(b), 0)

\* v * k and v + k for a whole number k; NaN stays NaN.
times(v, k) == IF v.nan THEN NaN ELSE F64(v.num * k, v.rad, v.add * k)

plus(v, k) == IF v.nan THEN NaN ELSE F64(v.num, v.rad, v.add + k)

RECURSIVE floor_sqrt_in(_, _, _)
\* The k with lo <= k < hi and k * k <= q < (k + 1) * (k + 1), by bisection.
floor_sqrt_in(lo, hi, q) ==
    IF hi = lo + 1 THEN lo
    ELSE LET mid == (lo + hi) \div 2
         IN  IF mid * mid <= q THEN floor_sqrt_in(mid, hi, q)
                               ELSE floor_sqrt_in(lo, mid, q)

floor_sqrt(q) == floor_sqrt_in(0, q + 1, q)

\* The largest whole number not above x / sqrt(n), n > 0.
floor_ratio(x, n) ==
    LET f == floor_sqrt((x * x) \div n)
    IN  IF x >= 0 THEN f
        ELSE IF f * f * n = x * x THEN -f ELSE -(f + 1)

\* f64::round: the nearest whole number, halves away from zero.
round(v) ==
    IF v.nan THEN NaN
    ELSE IF floor_ratio(v.num, v.rad) + v.add >= 0
         THEN F64(0, 1, (floor_ratio(2 * v.num, v.rad) + 2 * v.add + 1) \div 2)
         ELSE F64(0, 1, -((floor_ratio(-(2 * v.num), v.rad) - 2 * v.add + 1) \div 2))

\* Mutant of as_u32: NaN is cast to 1.
as_u32_nan_one(v) ==
    IF v.nan THEN 1
    ELSE IF v.add < 0 THEN 0
    ELSE v.add

\* `as u32` of a whole-valued f64: the cast saturates and takes NaN to 0.
\* (The saturation at u32::MAX is left out: no value here comes near it.)
as_u32(v) ==
    IF v.nan THEN 0
    ELSE IF v.add < 0 THEN 0
    ELSE v.add

DigitChars == <<"0", "1", "2", "3", "4", "5", "6", "7", "8", "9">>

RECURSIVE to_string(_)
\* u32::to_string: the decimal digits, as a sequence of characters.
to_string(n) ==
    IF n < 10 THEN <<DigitChars[n + 1]>>
    ELSE Append(to_string(n \div 10), DigitChars[(n % 10) + 1])

\* What send_embedding_request gives calculate_similarity.
RequestFailed == [ok |-> FALSE]

Embeddings(prompt_embedding, guess_embedding) ==
    [ok |-> TRUE, prompt_embedding |-> prompt_embedding, guess_embedding |-> guess_embedding]

EmbeddingOutcomes ==
    {RequestFailed} \cup {Embeddings(a, b) : a \in Vectors, b \in Vectors}

\* calculate_similarity, lines 281-314.
calculate_similarity(outcome) ==
    IF ~outcome.ok THEN <<"E", "r", "r", "o", "r">>
    ELSE LET similarity == cosine_similarity(outcome.prompt_embedding, outcome.guess_embedding)
             score == as_u32(round(plus(times(similarity, 50), 50)))
         IN  to_string(score)

Scored(outcome, body) ==
    [op |-> "score_guess", key |-> outcome, resp |-> "Ok", body |-> body]

\* score_guess: HttpResponse::Ok().body(score).
score_guess(outcome) ==
    /\ last' = Scored(outcome, calculate_similarity(outcome))
    /\ UNCHANGED <<game_codes, games, users, reqs>>

\* One request is followed: score_guess reads and writes no table, so what
\* it returns depends on nothing but the request.
ScoreNext ==
    /\ last = Served("none", "", "")
    /\ \E outcome \in EmbeddingOutcomes : score_guess(outcome)

ScoreSpec == Init /\ [][ScoreNext]_vars

\* The string is a decimal number.
Numeric(s) == Len(s) > 0 /\ \A i \in 1..Len(s) : s[i] \in Digits

DigitValue(c) ==
    CASE c = "0" -> 0 [] c = "1" -> 1 [] c = "2" -> 2 [] c = "3" -> 3 [] c = "4" -> 4
      [] c = "5" -> 5 [] c = "6" -> 6 [] c = "7" -> 7 [] c = "8" -> 8 [] c = "9" -> 9

RECURSIVE NumberOf(_)
NumberOf(s) ==
    IF Len(s) = 0 THEN 0
    ELSE 10 * NumberOf(SubSeq(s, 1, Len(s) - 1)) + DigitValue(s[Len(s)])

\* q * sqrt(n) <= x, for integers q, x and n > 0.
TimesSqrtLeq(q, n, x) ==
    IF q >= 0 THEN x >= 0 /\ q * q * n <= x * x
              ELSE x >= 0 \/ q * q * n >= x * x

\* s is within 1/2 of cos(a, b) * 50 + 50, for vectors a and b that are not 0:
\* (2s - 101) * |a||b| <= 100 * a.b <= (2s - 99) * |a||b|.
NearestToScaledCosine(s, a, b) ==
    LET n == sum_squares(a) * sum_squares(b)
        x == 100 * dot_product(a, b)
    IN  /\ TimesSqrtLeq(2 * s - 101, n, x)
        /\ TimesSqrtLeq(-(2 * s - 99), n, -x)

IsZero(a) == \A i \in 1..Len(a) : a[i] = 0

\* C19: the score score_guess returns is a decimal integer in 0..100, and
\* for embeddings that are not 0 it is the cosine similarity times 50 plus
\* 50, rounded; it is never out of that range and never a non-numeric text.
C19_ScoreInRange ==
    last.op = "score_guess" =>
        /\ Numeric(last.body)
        /\ NumberOf(last.body) \in 0..100
        /\ (/\ last.key.ok
            /\ ~IsZero(last.key.prompt_embedding)
            /\ ~IsZero(last.key.guess_embedding))
              => NearestToScaledCosine(NumberOf(last.body),
                                       last.key.prompt_embedding, last.key.guess_embedding)

\* C20: when one of the two embeddings has magnitude zero the score
\* returned is 0.
C20_ZeroMagnitudeScoresZero ==
    (/\ last.op = "score_guess"
     /\ last.key.ok
     /\ IsZero(last.key.prompt_embedding) \/ IsZero(last.key.guess_embedding))
        => last.body = <<"0">>

\* Witness of C20: a guess whose embedding is the zero vector was scored
\* against a prompt whose embedding is not.
C20_Witness ==
    /\ last.op = "score_guess"
    /\ last.key.ok
    /\ ~IsZero(last.key.prompt_embedding)
    /\ IsZero(last.key.guess_embedding)
    /\ last.body = <<"0">>

\* C21: the score is symmetric: the score returned for the embeddings
\* (a, b) is the score calculate_similarity computes for (b, a).
C21_ScoreSymmetric ==
    (last.op = "score_guess" /\ last.key.ok) =>
        last.body = calculate_similarity(
                        Embeddings(last.key.guess_embedding, last.key.prompt_embedding))

\* Witness of C21: two embeddings of different magnitude that are neither
\* parallel nor orthogonal were scored.
C21_Witness ==
    /\ last.op = "score_guess"
    /\ last.key.ok
    /\ sum_squares(last.key.prompt_embedding) # sum_squares(last.key.guess_embedding)
    /\ ~IsZero(last.key.prompt_embedding)
    /\ ~IsZero(last.key.guess_embedding)
    /\ NumberOf(last.body) \notin {0, 50, 100}

\* The uuid of the session a request names: join_game names it by its code.
SessionNamed(op, key) ==
    IF op = "join_game" THEN select_game_uuid(game_codes, key) ELSE key

\* C22: a handler writes a session's state only after it has read that
\* state: whenever a request other than create_game changes or adds a row
\* of games, the row existed before the request, it is the row of the
\* session the request names, and the request is answered Ok.
C22_SaveAfterLoad ==
    [][\A u \in DOMAIN games' :
          (/\ last'.op # "create_game"
           /\ (u \notin DOMAIN games \/ games'[u] # games[u]))
              => /\ u \in DOMAIN games
                 /\ last'.resp = "Ok"
                 /\ last'.op \in {"join_game", "player_ready", "submit_prompt"}
                 /\ SessionNamed(last'.op, last'.key) = u]_vars

\* Witness of C22: a player_ready has just written the state it read: the
\* session holds a player marked ready.
C22_Witness ==
    \E u \in DOMAIN games :
        /\ last = Served("player_ready", u, "Ok")
        /\ \E i \in 1..Len(games[u].players) : games[u].players[i].ready
        /\ games[u].status = "waiting"

\* C23: join_game never changes the phase of the session: the status stored
\* after a join_game's UPDATE is the status stored before it.
C23_JoinKeepsPhase ==
    [][\A w \in Workers :
          (save(w) /\ reqs[w].rq.op = "join_game") =>
              games'[reqs[w].game_uuid].status = games[reqs[w].game_uuid].status]_vars

\* C24: a session leaves status waiting only by a step after which it has
\* exactly 2 players, all of them ready; and a session whose status is not
\* waiting has at least 2 players.
C24_LeavesLobbyWhenReady ==
    [][\A u \in DOMAIN games :
          /\ (games[u].status = "waiting" /\ games'[u].status # "waiting") =>
                (Len(games'[u].players) = 2 /\ all_ready(games'[u].players))
          /\ games'[u].status # "waiting" => Len(games'[u].players) >= 2]_vars

\* C25: with requests served one at a time the players list is append-only:
\* every step keeps each player at its position with its id and score, and
\* a ready flag that is true stays true.
C25_PlayersAppendOnly ==
    [][\A u \in DOMAIN games :
          /\ Len(games'[u].players) >= Len(games[u].players)
          /\ \A i \in 1..Len(games[u].players) :
                /\ games'[u].players[i].id = games[u].players[i].id
                /\ games'[u].players[i].score = games[u].players[i].score
                /\ games[u].players[i].ready => games'[u].players[i].ready]_vars

\* Witness of C25: a join_game has just appended a third player to a
\* session whose first player was ready and still is.
C25_Witness ==
    \E u \in DOMAIN games :
        /\ last.op = "join_game" /\ last.resp = "Ok"
        /\ Len(games[u].players) = 3
        /\ games[u].players[1].ready
        /\ ~games[u].players[3].ready

====
